---- MODULE Spec2Model ----
(***************************************************************************)
(* A model of fast_animate.py: the BlitManager (partial redraw over a      *)
(* cached background), the renderer process animated_plot_process, and the *)
(* two orchestrators main() and main_from_ipynb().                         *)
(*                                                                         *)
(* Four specifications share the variables:                                *)
(*   SpecBM     a BlitManager on its own, its three entry points called in *)
(*              any order (add_artist, draw events, update)                *)
(*   SpecMain   main(): 100 frames, the sentinel, join, the exit code      *)
(*              (FairSpecMain: with both processes scheduled fairly)       *)
(*   SpecMainCrash  main() with a renderer that an uncaught exception may  *)
(*              end at any line                                            *)
(*   SpecIpynb  main_from_ipynb(): the renderer is started and the caller  *)
(*              puts whatever it wants on the queue, or stops              *)
(***************************************************************************)
EXTENDS Integers, Sequences, FiniteSets

VARIABLES
    bm,         \* the BlitManager with the canvas and figure it manages (see BlitManager)
    draws,      \* full redraws the managed canvas has performed so far
    last,       \* SpecBM: the entry point called last, with its argument
    queue,      \* the multiprocessing.Queue: vectors put and not yet taken, oldest first
    sent,       \* every vector ever put on the queue, in put order
    taken,      \* every vector the renderer has taken from the queue, in get order
    rendered,   \* one entry per rendering step completed: the vector and text it was given
    ppc,        \* where the producer (main) is
    j,          \* main's loop index
    printed,    \* the exit codes main has printed
    rpc,        \* where the renderer process is
    frame_num,  \* animated_plot_process's frame_num
    data,       \* animated_plot_process's data
    figOpen,    \* the renderer's figure window is open (plt.show .. plt.close)
    exitcode    \* animate_process.exitcode

vars == <<bm, draws, last, queue, sent, taken, rendered,
          ppc, j, printed, rpc, frame_num, data, figOpen, exitcode>>

procVars == <<queue, sent, taken, rendered, ppc, j, printed, rpc, frame_num,
              data, figOpen, exitcode>>

(***************************************************************************)
(* Bounds of the model.                                                    *)
(***************************************************************************)
MaxDraws == 2      \* full redraws the toolkit delivers in one run
MaxArtists == 3    \* SpecBM: add_artist calls that succeed
MaxUpdates == 3    \* SpecBM: update() calls
MaxPuts == 4       \* SpecIpynb: vectors the caller puts

(***************************************************************************)
(* Program constants.                                                      *)
(***************************************************************************)
NSamples == 400    \* main: n_samples
NumFrames == 100   \* main: range(100)

(***************************************************************************)
(* Values.  A vector is named by its length and by which array it is       *)
(* (id 0: the zeros the renderer starts with; id k: the k-th array drawn    *)
(* by the producer).  None is the empty tuple, so a snapshot, when there   *)
(* is one, is the 1-tuple holding the captured buffer.                     *)
(***************************************************************************)
None == <<>>
ExitCode(n) == <<n>>
Vector(n, k) == [len |-> n, id |-> k]
Zeros == Vector(NSamples, 0)
NoData == Vector(-1, 0)
NoText == <<>>
InitialText == <<"0">>

\* "frame: {j}".format(j=frame_num)
FormatFrame(n) == <<"frame: ", n>>

\* len(data)
len(v) == v.len

(***************************************************************************)
(* Figures, canvases and artists.  "canvas" shows "fig"; ln and fr_number  *)
(* are artists of "fig".  "canvas2"/"fig2"/"elsewhere" are a second figure *)
(* used to call the manager with foreign arguments.                        *)
(***************************************************************************)
Canvases == {"canvas", "canvas2"}
Artists == {"ln", "fr_number", "elsewhere"}
figure(x) == IF x \in {"canvas", "ln", "fr_number"} THEN "fig" ELSE "fig2"

\* What an artist paints when it is drawn now: the curve paints its y data,
\* the annotation its text.
Pixels(m, a) ==
    [art |-> a,
     ydata |-> IF a = "ln" THEN m.ydata ELSE NoData,
     text |-> IF a = "fr_number" THEN m.text ELSE NoText]

\* A frame buffer: the full scene it was last drawn from (which full redraw,
\* and the artists that redraw painted as part of the scene) and what has
\* been painted over it since.
Buffer(n, static) == [scene |-> n, static |-> static, over |-> <<>>]
BlankBuffer == Buffer(0, {})

(***************************************************************************)
(* BlitManager.  m.canvas, m.bg, m.artists are the object's fields;        *)
(* m.buffer and m.screen are the canvas's frame buffer and what the window *)
(* shows; m.animated is the set of artists whose animated flag is set;     *)
(* m.ydata and m.text are the curve's y data and the annotation's text;    *)
(* m.trace lists the canvas calls of the entry point in progress,          *)
(* m.raised tells that it raised, m.captures counts copy_from_bbox calls   *)
(* and m.updates counts update() calls.                                    *)
(***************************************************************************)
Call(op, arg) == <<op, arg>>

\* ln.set_ydata(data), fr_number.set_text(s)
set_ydata(m, v) == [m EXCEPT !.ydata = v]
set_text(m, s) == [m EXCEPT !.text = s]

set_animated(m, art) == [m EXCEPT !.animated = @ \cup {art}]

\* (a faulty add_artist: the artist is registered before its figure is checked)
add_artist_CheckLast(m, art) ==
    LET added == [set_animated(m, art) EXCEPT !.artists = Append(@, art)]
    IN  IF figure(art) # figure(m.canvas) THEN [added EXCEPT !.raised = TRUE] ELSE added

add_artist(m, art) ==
    IF figure(art) # figure(m.canvas)
    THEN [m EXCEPT !.raised = TRUE]
    ELSE [set_animated(m, art) EXCEPT !.artists = Append(@, art)]

RECURSIVE add_artists(_, _)
add_artists(m, arts) ==
    IF arts = <<>> \/ m.raised THEN m
    ELSE add_artists(add_artist(m, Head(arts)), Tail(arts))

\* BlitManager(canvas, animated_artists); already_animated are the artists
\* created with animated=True.
BlitManager(canvas, animated_artists, already_animated) ==
    add_artists([canvas |-> canvas, bg |-> None, artists |-> <<>>,
                 buffer |-> BlankBuffer, screen |-> BlankBuffer,
                 animated |-> already_animated,
                 ydata |-> Zeros, text |-> InitialText, trace |-> <<>>,
                 raised |-> FALSE, captures |-> 0, updates |-> 0],
                animated_artists)

\* (a faulty toolkit: a curve is drawn whatever the length of its y data)
Drawable_AnyLength(m, a) == TRUE
\* The curve was plotted against np.arange(n_samples) (line 95).  When it is
\* drawn its y data is broadcast against its x data: as many values, or one
\* value repeated; any other length raises.
Broadcasts(n) == n = NSamples \/ n = 1
Drawable(m, a) == a # "ln" \/ Broadcasts(len(m.ydata))

\* fig.draw_artist(a): paints the artist, or raises when it cannot be drawn
draw_artist(m, a) ==
    IF Drawable(m, a)
    THEN [m EXCEPT !.buffer.over = Append(@, Pixels(m, a)),
                   !.trace = Append(@, Call("draw_artist", a))]
    ELSE [m EXCEPT !.raised = TRUE,
                   !.trace = Append(@, Call("draw_artist", a))]

\* the loop ends at the first draw_artist that raises
RECURSIVE draw_each(_, _)
draw_each(m, arts) ==
    IF arts = <<>> \/ m.raised THEN m
    ELSE draw_each(draw_artist(m, Head(arts)), Tail(arts))

\* (a faulty _draw_animated: the artists are drawn last registered first)
RECURSIVE draw_each_Reversed(_, _)
draw_each_Reversed(m, arts) ==
    IF arts = <<>> THEN m
    ELSE LET rest == draw_each_Reversed(m, Tail(arts))
         IN  IF rest.raised THEN rest ELSE draw_artist(rest, Head(arts))

_draw_animated_Reversed(m) == draw_each_Reversed(m, m.artists)

_draw_animated(m) == draw_each(m, m.artists)

copy_from_bbox(m) ==
    [m EXCEPT !.bg = <<m.buffer>>,
              !.captures = @ + 1,
              !.trace = Append(@, Call("copy_from_bbox", "fig.bbox"))]

\* (a faulty on_draw: a snapshot, once taken, is kept)
on_draw_KeepFirst(m, event) ==
    IF event # None /\ event # <<m.canvas>>
    THEN [m EXCEPT !.raised = TRUE]
    ELSE _draw_animated(IF m.bg = None THEN copy_from_bbox(m) ELSE m)

\* (a faulty on_draw: a foreign event drops the stored snapshot)
on_draw_DropOnForeign(m, event) ==
    IF event # None /\ event # <<m.canvas>>
    THEN [m EXCEPT !.raised = TRUE, !.bg = None]
    ELSE _draw_animated(copy_from_bbox(m))

\* (a faulty on_draw: the event's canvas is not checked)
on_draw_NoCheck(m, event) == _draw_animated(copy_from_bbox(m))

\* (a faulty on_draw: the animated artists are drawn before the capture)
on_draw_DrawFirst(m, event) ==
    IF event # None /\ event # <<m.canvas>>
    THEN [m EXCEPT !.raised = TRUE]
    ELSE copy_from_bbox(_draw_animated(m))

\* event is None or the canvas the event comes from
on_draw(m, event) ==
    IF event # None /\ event # <<m.canvas>>
    THEN [m EXCEPT !.raised = TRUE]
    ELSE _draw_animated(copy_from_bbox(m))

restore_region(m) ==
    [m EXCEPT !.buffer = m.bg[1],
              !.trace = Append(@, Call("restore_region", "bg"))]

\* A statement that follows one that raised is not executed.
blit(m) ==
    IF m.raised THEN m
    ELSE [m EXCEPT !.screen = m.buffer,
                   !.trace = Append(@, Call("blit", "fig.bbox"))]

flush_events(m) ==
    IF m.raised THEN m
    ELSE [m EXCEPT !.trace = Append(@, Call("flush_events", ""))]

\* (a faulty update: it takes the full-redraw path every time)
update_AlwaysOnDraw(m) ==
    flush_events(on_draw([m EXCEPT !.updates = @ + 1], None))

update(m) ==
    LET m0 == [m EXCEPT !.updates = @ + 1]
    IN  flush_events(IF m0.bg = None
                     THEN on_draw(m0, None)
                     ELSE blit(_draw_animated(restore_region(m0))))

\* A call starts with an empty trace and no exception pending.
Enter(m) == [m EXCEPT !.trace = <<>>, !.raised = FALSE]

(***************************************************************************)
(* The toolkit's full redraw of the managed canvas: the scene is drawn     *)
(* afresh without the animated artists, the draw_event callback runs, and  *)
(* the window is repainted from the buffer.                                *)
(***************************************************************************)
StaticArtists(m) ==
    {a \in Artists : figure(a) = figure(m.canvas) /\ a \notin m.animated}

FullRedraw(m) ==
    LET drawn == [Enter(m) EXCEPT !.buffer = Buffer(draws + 1, StaticArtists(m))]
        handled == on_draw(drawn, <<m.canvas>>)
    IN  [handled EXCEPT !.screen = handled.buffer]

(***************************************************************************)
(* SpecBM: a manager on "canvas", built with some artists of its figure;   *)
(* its entry points are then called in any order.                           *)
(***************************************************************************)
Idle ==
    /\ queue = <<>> /\ sent = <<>> /\ taken = <<>> /\ rendered = <<>>
    /\ ppc = "none" /\ j = 0 /\ printed = <<>>
    /\ rpc = "none" /\ frame_num = 0 /\ data = Zeros
    /\ figOpen = FALSE /\ exitcode = None

InitBM ==
    /\ \E arts \in {<<>>, <<"ln">>, <<"ln", "fr_number">>} :
           bm = BlitManager("canvas", arts, {})
    /\ draws = 0
    /\ last = <<"__init__", "">>
    /\ Idle

BMAddArtist(art) ==
    /\ Len(bm.artists) < MaxArtists
    /\ bm' = add_artist(Enter(bm), art)
    /\ last' = <<"add_artist", art>>
    /\ UNCHANGED <<draws, procVars>>

\* A draw_event of the managed canvas: the canvas has just redrawn itself.
BMDrawEvent ==
    /\ draws < MaxDraws
    /\ bm' = FullRedraw(bm)
    /\ draws' = draws + 1
    /\ last' = <<"on_draw", "canvas">>
    /\ UNCHANGED procVars

\* on_draw called with the draw event of another canvas.
BMForeignDrawEvent ==
    /\ bm' = on_draw(Enter(bm), <<"canvas2">>)
    /\ last' = <<"on_draw", "canvas2">>
    /\ UNCHANGED <<draws, procVars>>

BMUpdate ==
    /\ bm.updates < MaxUpdates
    /\ bm' = update(Enter(bm))
    /\ last' = <<"update", "">>
    /\ UNCHANGED <<draws, procVars>>

NextBM ==
    \/ \E art \in Artists : BMAddArtist(art)
    \/ BMDrawEvent
    \/ BMForeignDrawEvent
    \/ BMUpdate

SpecBM == InitBM /\ [][NextBM]_vars
(***************************************************************************)
(* The queue.  put appends, get takes the oldest.                          *)
(***************************************************************************)
\* (a faulty queue: built with a maxsize, put blocks while it is full)
HasRoom_MaxSize(q) == Len(q) < 8
\* Queue() is built without a maxsize: put never waits for room
HasRoom(q) == TRUE

\* (a faulty queue: the newest vector goes to the front)
put_Front(q, v) == <<v>> \o q
put(q, v) == Append(q, v)
\* (a faulty queue: the newest vector is handed out first)
get_item_Newest(q) == q[Len(q)]
get_item(q) == Head(q)
get_rest(q) == Tail(q)

\* (a faulty producer: an end marker that is not empty)
Sentinel_NotEmpty == Vector(1, 0)
\* tuple()
Sentinel == Vector(0, 0)

(***************************************************************************)
(* animated_plot_process                                                   *)
(***************************************************************************)
\* lines 86-112: the figure, the two animated artists, the manager, the window
RendererSetup ==
    /\ rpc = "start"
    /\ frame_num' = 0
    /\ data' = Zeros
    /\ bm' = BlitManager("canvas", <<"ln", "fr_number">>, {"ln", "fr_number"})
    /\ figOpen' = TRUE
    /\ rpc' = "pause"
    /\ UNCHANGED <<draws, last, queue, sent, taken, rendered, ppc, j, printed, exitcode>>

\* The GUI event loop runs inside plt.pause(1) and inside flush_events();
\* there the toolkit may redraw the canvas and deliver its draw_event.
InEventLoop == rpc \in {"pause", "flush"}

DrawEvent ==
    /\ InEventLoop
    /\ figOpen
    /\ draws < MaxDraws
    /\ bm' = FullRedraw(bm)
    /\ draws' = draws + 1
    /\ UNCHANGED <<last, procVars>>

\* plt.pause(1) returns
PauseDone ==
    /\ rpc = "pause"
    /\ rpc' = "await"
    /\ UNCHANGED <<bm, draws, last, queue, sent, taken, rendered,
                   ppc, j, printed, frame_num, data, figOpen, exitcode>>

\* (a faulty test: whatever is not a frame of n_samples values ends the loop)
IsSentinel_NotAFrame(v) == len(v) # NSamples
\* (a faulty test: a vector shorter than a frame ends the loop)
IsSentinel_Short(v) == len(v) < NSamples
\* len(data)==0
IsSentinel(v) == len(v) = 0

\* lines 116-121: data = queue.get(); frame_num += 1; the sentinel test and,
\* on the sentinel, plt.close() and break
RendererGet ==
    /\ rpc = "await"
    /\ queue # <<>>
    /\ data' = get_item(queue)
    /\ queue' = get_rest(queue)
    /\ taken' = Append(taken, get_item(queue))
    /\ frame_num' = frame_num + 1
    /\ IF IsSentinel(get_item(queue))
       THEN figOpen' = FALSE /\ rpc' = "returned"
       ELSE figOpen' = figOpen /\ rpc' = "render"
    /\ UNCHANGED <<bm, draws, last, sent, rendered, ppc, j,
                   printed, exitcode>>

\* lines 123-125: set_ydata, set_text, bm.update() up to its flush_events().
\* Nothing in lines 66-81 or 115-125 catches what update() raises: the
\* process then ends where it is, with exit code 1, the figure not closed.
RendererRender ==
    /\ rpc = "render"
    /\ bm' = update(Enter(set_text(set_ydata(bm, data), FormatFrame(frame_num))))
    /\ IF bm'.raised
       THEN /\ rpc' = "crashed"
            /\ exitcode' = ExitCode(1)
            /\ rendered' = rendered
       ELSE /\ rpc' = "flush"
            /\ exitcode' = exitcode
            /\ rendered' = Append(rendered,
                                  [ydata |-> data, text |-> FormatFrame(frame_num)])
    /\ UNCHANGED <<draws, last, queue, sent, taken, ppc, j, printed, frame_num,
                   data, figOpen>>
\* line 81 returns and the loop goes back to queue.get()
FlushDone ==
    /\ rpc = "flush"
    /\ rpc' = "await"
    /\ UNCHANGED <<bm, draws, last, queue, sent, taken, rendered,
                   ppc, j, printed, frame_num, data, figOpen, exitcode>>

\* the function returns after the break and the process exits
RendererExit ==
    /\ rpc = "returned"
    /\ rpc' = "exited"
    /\ exitcode' = ExitCode(0)
    /\ UNCHANGED <<bm, draws, last, queue, sent, taken, rendered,
                   ppc, j, printed, frame_num, data, figOpen>>

RendererStep ==
    \/ RendererSetup
    \/ PauseDone
    \/ RendererGet
    \/ RendererRender
    \/ FlushDone
    \/ RendererExit

(***************************************************************************)
(* main()                                                                  *)
(***************************************************************************)
\* np.random.random((n_samples,)): the array drawn in iteration i
RandomData(i) == Vector(NSamples, i + 1)

\* lines 143-147
MainPut ==
    /\ ppc = "loop"
    /\ j < NumFrames
    /\ HasRoom(queue)
    /\ queue' = put(queue, RandomData(j))
    /\ sent' = Append(sent, RandomData(j))
    /\ j' = j + 1
    /\ UNCHANGED <<bm, draws, last, taken, rendered, ppc, printed, rpc, frame_num,
                   data, figOpen, exitcode>>

\* (a faulty main: it goes to join() without putting the sentinel)
MainPutSentinel_Forgotten ==
    /\ ppc = "loop"
    /\ j = NumFrames
    /\ ppc' = "join"
    /\ UNCHANGED <<bm, draws, last, queue, sent, taken, rendered, j, printed, rpc,
                   frame_num, data, figOpen, exitcode>>

\* line 148
MainPutSentinel ==
    /\ ppc = "loop"
    /\ j = NumFrames
    /\ HasRoom(queue)
    /\ queue' = put(queue, Sentinel)
    /\ sent' = Append(sent, Sentinel)
    /\ ppc' = "join"
    /\ UNCHANGED <<bm, draws, last, taken, rendered, j, printed, rpc, frame_num,
                   data, figOpen, exitcode>>

\* (a faulty join: it returns at once)
Joinable_NoWait == TRUE
\* (a faulty join: it waits for a renderer that leaves by the sentinel)
Joinable_OnlyCleanExit == rpc = "exited"
\* what animate_process.join() waits for: the process has terminated, and
\* only then is its exitcode set
Joinable == exitcode # None

\* line 149
MainJoin ==
    /\ ppc = "join"
    /\ Joinable
    /\ ppc' = "report"
    /\ UNCHANGED <<bm, draws, last, queue, sent, taken, rendered, j, printed, rpc,
                   frame_num, data, figOpen, exitcode>>

\* lines 150-151
MainReport ==
    /\ ppc = "report"
    /\ printed' = Append(printed, exitcode)
    /\ ppc' = "done"
    /\ UNCHANGED <<bm, draws, last, queue, sent, taken, rendered, j, rpc,
                   frame_num, data, figOpen, exitcode>>

MainStep == MainPut \/ MainPutSentinel \/ MainJoin \/ MainReport

\* The renderer's variables before the process has run a line.
NotStarted ==
    /\ bm = BlitManager("canvas", <<>>, {})
    /\ draws = 0
    /\ last = <<"", "">>
    /\ queue = <<>> /\ sent = <<>> /\ taken = <<>> /\ rendered = <<>>
    /\ j = 0 /\ printed = <<>>
    /\ rpc = "start" /\ frame_num = 0 /\ data = Zeros
    /\ figOpen = FALSE /\ exitcode = None

\* after line 141: the queue exists and the renderer process is started
InitMain == NotStarted /\ ppc = "loop"

NextMain == MainStep \/ RendererStep \/ DrawEvent

SpecMain == InitMain /\ [][NextMain]_vars

\* Both processes are scheduled: neither is starved of a step it can take.
\* Nothing obliges the toolkit to redraw.
FairSpecMain == SpecMain /\ WF_vars(MainStep) /\ WF_vars(RendererStep)

(***************************************************************************)
(* main() with a renderer that may die: an exception that nothing catches  *)
(* (no GUI backend at line 86, no display at line 93, an error while       *)
(* drawing) ends the process at the line it has reached, the sentinel not  *)
(* taken, with exit code 1.                                                *)
(***************************************************************************)
Alive == rpc \in {"start", "pause", "await", "render", "flush"}

RendererCrash ==
    /\ Alive
    /\ rpc' = "crashed"
    /\ exitcode' = ExitCode(1)
    /\ UNCHANGED <<bm, draws, last, queue, sent, taken, rendered,
                   ppc, j, printed, frame_num, data, figOpen>>

NextMainCrash == MainStep \/ RendererStep \/ DrawEvent \/ RendererCrash

SpecMainCrash == InitMain /\ [][NextMainCrash]_vars

(***************************************************************************)
(* main_from_ipynb(): the renderer is started and returned to the caller,  *)
(* who puts vectors on data_queue as it sees fit: frames of n_samples      *)
(* values, the sentinel, vectors of another length (one that cannot be     *)
(* broadcast against the x data, and one value alone, which can); at most  *)
(* MaxPuts.                                                                *)
(***************************************************************************)
CallerVectors ==
    {Sentinel, Vector(NSamples, 1), Vector(NSamples, 2), Vector(NSamples - 1, 3),
     Vector(1, 4)}

IpynbPut(v) ==
    /\ ppc = "caller"
    /\ Len(sent) < MaxPuts
    /\ HasRoom(queue)
    /\ queue' = put(queue, v)
    /\ sent' = Append(sent, v)
    /\ UNCHANGED <<bm, draws, last, taken, rendered, ppc, j, printed, rpc, frame_num,
                   data, figOpen, exitcode>>

\* after line 134
InitIpynb == NotStarted /\ ppc = "caller"

NextIpynb == (\E v \in CallerVectors : IpynbPut(v)) \/ RendererStep \/ DrawEvent

SpecIpynb == InitIpynb /\ [][NextIpynb]_vars
(***************************************************************************)
(* What the claims speak of.                                               *)
(***************************************************************************)
\* the vectors of s that are not the zero-length sentinel
FrameCount(s) == Cardinality({i \in 1..Len(s) : s[i].len # 0})

SentinelAt(s) == {i \in 1..Len(s) : s[i].len = 0}

HasSentinel(s) == SentinelAt(s) # {}

\* the vectors of s that come before its first sentinel
FramesBeforeSentinel(s) ==
    IF HasSentinel(s)
    THEN (CHOOSE i \in SentinelAt(s) : \A k \in SentinelAt(s) : i <= k) - 1
    ELSE Len(s)

LoopLeft == rpc \in {"returned", "exited"}

\* not the sentinel, and of a length the curve cannot be drawn with
Undrawable(v) == v.len # 0 /\ ~Broadcasts(v.len)
AllDrawable(s) == \A i \in 1..Len(s) : ~Undrawable(s[i])

(***************************************************************************)
(* C1: in every state of the renderer, frame_num equals the number of      *)
(* non-sentinel vectors it has taken from the queue so far.                *)
(* The code adds one for every vector taken, the sentinel included         *)
(* (line 117 comes before the test of line 118), so this fails as soon as  *)
(* the sentinel is taken.                                                  *)
(***************************************************************************)
C1_FrameNumCountsFrames == frame_num = FrameCount(taken)

(***************************************************************************)
(* C2: when the renderer has left its loop after k data frames followed by *)
(* the sentinel, frame_num is k (0 when the sentinel comes first).         *)
(* The code leaves the loop with frame_num = k + 1.                        *)
(***************************************************************************)
C2_FrameNumAtTermination ==
    LoopLeft => frame_num = FramesBeforeSentinel(sent)

(***************************************************************************)
(* C3: with the sentinel put after k data frames (vectors of n_samples     *)
(* values, or any the curve can be drawn with), the renderer performs      *)
(* the rendering step (curve data, counter text, update()) exactly k       *)
(* times, once per data frame, then closes the figure and leaves the loop; *)
(* once it has taken the sentinel it takes nothing more from the queue and *)
(* calls update() no more, whatever is queued behind the sentinel.         *)
(***************************************************************************)
C3_AfterSentinel ==
    HasSentinel(taken) =>
        /\ LoopLeft
        /\ ~figOpen
        /\ Len(rendered) = FramesBeforeSentinel(sent)
        /\ bm.updates = FramesBeforeSentinel(sent)
        /\ Len(taken) = FramesBeforeSentinel(sent) + 1

C3_OncePerFrame ==
    AllDrawable(taken) =>
        /\ bm.updates = Len(rendered)
        /\ Len(rendered) = FrameCount(taken) - (IF rpc = "render" THEN 1 ELSE 0)

C3_NothingAfterSentinel ==
    HasSentinel(taken) =>
        /\ taken' = taken
        /\ Len(queue') >= Len(queue)
        /\ rendered' = rendered
        /\ bm'.updates = bm.updates
        /\ bm' = bm

\* C3: exactly k rendering steps for k frames before the sentinel, then the
\* figure is closed and the loop left; nothing is taken or drawn afterwards.
C3_ExactlyKFramesThenStop ==
    /\ [](C3_AfterSentinel /\ C3_OncePerFrame)
    /\ [][C3_NothingAfterSentinel]_vars

\* two frames rendered, the loop left, and vectors still queued behind the sentinel
C3_Witness ==
    /\ rpc = "exited"
    /\ Len(rendered) = 2
    /\ bm.updates = 2
    /\ Len(queue) = 1
    /\ ~HasSentinel(queue)
(***************************************************************************)
(* C4: in main(), when both processes are scheduled fairly, the renderer   *)
(* eventually terminates after the 100 frames and the sentinel, join()     *)
(* eventually returns, and the exit code main then prints is 0.            *)
(***************************************************************************)
C4_MainDone ==
    /\ ppc = "done"
    /\ rpc = "exited"
    /\ Len(rendered) = NumFrames
    /\ printed = <<ExitCode(0)>>

\* C4: under fair scheduling main() ends for good with the renderer exited,
\* all 100 frames rendered, and exit code 0 printed.
C4_MainTerminatesCleanly == <>[]C4_MainDone

C4_Witness ==
    /\ C4_MainDone
    /\ Len(sent) = NumFrames + 1
    /\ queue = <<>>

(***************************************************************************)
(* C5 as stated: the renderer leaves its loop only by taking the sentinel: *)
(* whenever it has left the loop (or its process has exited) it has taken  *)
(* a zero-length vector; and while it waits in queue.get() on an empty     *)
(* queue it stays there, taking nothing and counting nothing, so a         *)
(* producer that stops before the sentinel leaves it blocked for good.     *)
(* A vector of another length than 0, 1 and n_samples ends the process in  *)
(* update(), no sentinel taken.                                            *)
(***************************************************************************)
C5_LeftOnlyBySentinel ==
    (LoopLeft \/ exitcode # None \/ (rpc # "start" /\ ~figOpen)) => HasSentinel(taken)

C5_BlockedWhileEmpty ==
    (rpc = "await" /\ queue = <<>>) =>
        /\ rpc' = "await"
        /\ taken' = taken
        /\ frame_num' = frame_num
        /\ figOpen' = figOpen
        /\ exitcode' = exitcode

\* C5: the loop is left only through the sentinel, and a renderer waiting on
\* an empty queue stays waiting.
C5_TerminatedOnlyViaSentinel ==
    /\ []C5_LeftOnlyBySentinel
    /\ [][C5_BlockedWhileEmpty]_vars

(***************************************************************************)
(* C5 amended: the renderer closes its figure, leaves its loop by the      *)
(* break and exits with code 0 only by taking the sentinel; the one other  *)
(* way its process ends is the exception raised in update() for a vector   *)
(* that has neither 0, 1 nor n_samples values, which ends it with exit     *)
(* code 1 and the figure not closed; and while it waits in queue.get() on an *)
(* empty queue it stays there, taking nothing and counting nothing.        *)
(***************************************************************************)
C5_TerminatedBySentinel ==
    (LoopLeft \/ exitcode = ExitCode(0) \/ (rpc # "start" /\ ~figOpen)) =>
        (HasSentinel(taken) /\ AllDrawable(taken))

C5_EndedOtherwise ==
    ((exitcode # None \/ rpc = "crashed") /\ ~HasSentinel(taken)) =>
        /\ rpc = "crashed"
        /\ exitcode = ExitCode(1)
        /\ figOpen
        /\ taken # <<>>
        /\ Undrawable(taken[Len(taken)])
        /\ data = taken[Len(taken)]
        /\ bm.raised

\* C5: the loop is left by the break only through the sentinel, the process
\* ends otherwise only by the exception an undrawable vector raises, and a
\* renderer waiting on an empty queue stays waiting.
C5_TerminatedViaSentinelOrException ==
    /\ [](C5_TerminatedBySentinel /\ C5_EndedOtherwise)
    /\ [][C5_BlockedWhileEmpty]_vars

\* a frame was rendered, then an undrawable vector ended the process; no
\* sentinel was taken, the one put is still queued
C5_Witness ==
    /\ rpc = "crashed"
    /\ exitcode = ExitCode(1)
    /\ ~HasSentinel(taken)
    /\ Len(taken) = 2
    /\ queue = <<Sentinel>>
    /\ figOpen

(***************************************************************************)
(* C6: whatever the interleaving of puts and gets, the renderer takes the  *)
(* vectors in the order they were put, none lost, duplicated or reordered: *)
(* the i-th rendering step is given the i-th vector put and the counter    *)
(* text for i, and that is what it draws into the frame buffer.            *)
(***************************************************************************)
C6_Drawn(i) ==
    <<[art |-> "ln", ydata |-> sent[i], text |-> NoText],
      [art |-> "fr_number", ydata |-> NoData, text |-> FormatFrame(i)]>>

\* C6: vectors are taken in put order, none lost or duplicated, and the i-th
\* rendering step draws the i-th vector put with the text for i.
C6_FifoRendering ==
    /\ taken \o queue = sent
    /\ \A i \in 1..Len(rendered) :
          rendered[i] = [ydata |-> sent[i], text |-> FormatFrame(i)]
    /\ Len(rendered) >= 1 => bm.buffer.over = C6_Drawn(Len(rendered))

\* the producer is three frames ahead of a renderer that has rendered two
C6_Witness ==
    /\ Len(rendered) = 2
    /\ Len(queue) = 3
    /\ rpc = "flush"

(***************************************************************************)
(* C7: in main() the sentinel is put exactly once, after the last of the   *)
(* 100 data vectors, and nothing is put after it; main then waits in       *)
(* join(), and it prints the exit code only once the renderer process has  *)
(* exited.                                                                 *)
(***************************************************************************)
C7_SentinelLastThenJoin ==
    /\ Len(sent) <= NumFrames + 1
    /\ \A i \in 1..Len(sent) : (sent[i].len = 0) <=> (i = NumFrames + 1)
    /\ (ppc # "loop") <=> (Len(sent) = NumFrames + 1)
    /\ ppc \in {"report", "done"} => (rpc = "exited" /\ exitcode = ExitCode(0))
    /\ printed # <<>> => (ppc = "done" /\ printed = <<ExitCode(0)>>)

C7_Witness ==
    /\ ppc = "done"
    /\ printed = <<ExitCode(0)>>
    /\ Len(sent) = NumFrames + 1
(***************************************************************************)
(* The canvas calls an entry point makes, as they appear in m.trace.       *)
(***************************************************************************)
Copy == Call("copy_from_bbox", "fig.bbox")
Restore == Call("restore_region", "bg")
Blit == Call("blit", "fig.bbox")
Flush == Call("flush_events", "")
DrawCalls(arts) == [i \in 1..Len(arts) |-> Call("draw_artist", arts[i])]
Painted(m, arts) == [i \in 1..Len(arts) |-> Pixels(m, arts[i])]

\* this step is a call of update() / the handling of a draw_event of the
\* managed canvas
IsUpdateStep == bm'.updates = bm.updates + 1
IsDrawStep == draws' = draws + 1

(***************************************************************************)
(* C8 as stated: the background snapshot is captured exactly once per      *)
(* full-redraw event and at no other time.  An update() that finds no      *)
(* snapshot (no draw event has come yet) captures one itself.              *)
(***************************************************************************)
C8_CapturedOnlyByDrawEvents == bm.captures = draws

(***************************************************************************)
(* C8 amended: the snapshot is captured exactly once by every full-redraw  *)
(* event of the managed canvas, exactly once by an update() that finds no  *)
(* snapshot, and at no other time; an update() that finds a snapshot       *)
(* restores that snapshot, which is the one captured last, captures none   *)
(* and leaves the stored one as it is.                                     *)
(***************************************************************************)
C8_CaptureStep ==
    bm'.captures = bm.captures +
        (IF IsDrawStep \/ (IsUpdateStep /\ bm.bg = None) THEN 1 ELSE 0)

C8_UpdateReuses ==
    (IsUpdateStep /\ bm.bg # None) =>
        /\ bm'.bg = bm.bg
        /\ bm'.trace[1] = Restore
        /\ \A i \in 1..Len(bm'.trace) : bm'.trace[i] # Copy
        /\ bm'.buffer.scene = bm.bg[1].scene
        /\ bm'.buffer.static = bm.bg[1].static

C8_SnapshotIsLatest ==
    /\ bm.bg = None <=> bm.captures = 0
    /\ bm.bg # None => bm.bg[1].scene = draws
    /\ bm.captures \in {draws, draws + 1}

\* C8 (amended): one capture per draw event of the managed canvas, one by an
\* update() that finds no snapshot, none otherwise; other update() calls reuse
\* the stored snapshot.
C8_CapturePerDrawEventOrFirstUpdate ==
    /\ []C8_SnapshotIsLatest
    /\ [][C8_CaptureStep /\ C8_UpdateReuses]_vars

\* an update() took the snapshot itself, a draw event replaced it, and the
\* update() after that reused the second one
C8_Witness ==
    /\ last = <<"update", "">>
    /\ draws = 1
    /\ bm.captures = 2
    /\ bm.updates = 2
    /\ bm.trace[1] = Restore

(***************************************************************************)
(* C9: every full-redraw event of the managed canvas makes on_draw replace *)
(* the stored snapshot by a fresh capture of the figure region (the scene  *)
(* just drawn, nothing painted over it) and then, in the same call and     *)
(* before anything else is drawn, draw every animated artist on top; two   *)
(* such events in a row before any update() give exactly two captures, the *)
(* stored snapshot being the second, and no later draw uses the first.     *)
(***************************************************************************)
C9_OnDrawStep ==
    IsDrawStep =>
        /\ ~bm'.raised
        /\ bm'.captures = bm.captures + 1
        /\ bm'.bg = <<Buffer(draws', StaticArtists(bm))>>
        /\ bm'.trace = <<Copy>> \o DrawCalls(bm.artists)
        /\ bm'.buffer = [Buffer(draws', StaticArtists(bm))
                            EXCEPT !.over = Painted(bm, bm.artists)]
        /\ bm'.artists = bm.artists

C9_NoStaleSnapshot ==
    /\ bm.updates = 0 => bm.captures = draws
    /\ draws >= 1 =>
          /\ bm.bg # None
          /\ bm.bg[1].scene = draws
          /\ bm.buffer.scene = draws

\* C9: each draw event of the managed canvas stores a fresh capture and then
\* draws the animated artists; the stored snapshot is never a stale one.
C9_OnDrawRecaptures ==
    /\ []C9_NoStaleSnapshot
    /\ [][C9_OnDrawStep]_vars

\* two draw events in a row, no update() yet, artists registered
C9_Witness ==
    /\ last = <<"on_draw", "canvas">>
    /\ draws = 2
    /\ bm.updates = 0
    /\ bm.captures = 2
    /\ bm.bg[1].scene = 2
    /\ Len(bm.artists) = 2

(***************************************************************************)
(* C10: add_artist on an artist of another figure raises and changes       *)
(* nothing: the artist is not flagged animated, the artists list, the      *)
(* stored snapshot and the capture count are as before.  Otherwise the     *)
(* artist is flagged animated and appended at the end of the list.         *)
(***************************************************************************)
C10_AddArtistStep ==
    \A art \in Artists :
        (last' = <<"add_artist", art>>) =>
            IF figure(art) # figure(bm.canvas)
            THEN /\ bm'.raised
                 /\ art \notin bm'.animated
                 /\ bm' = [Enter(bm) EXCEPT !.raised = TRUE]
            ELSE /\ ~bm'.raised
                 /\ art \in bm'.animated
                 /\ bm'.artists = Append(bm.artists, art)
                 /\ bm'.bg = bm.bg
                 /\ bm'.captures = bm.captures

\* C10: add_artist refuses an artist of another figure and changes nothing;
\* otherwise it flags the artist animated and appends it.
C10_AddArtistChecksFigure == [][C10_AddArtistStep]_vars

\* a foreign artist refused by a manager that holds artists and a snapshot
C10_Witness ==
    /\ last = <<"add_artist", "elsewhere">>
    /\ bm.raised
    /\ bm.artists = <<"ln", "fr_number">>
    /\ bm.bg # None
    /\ "elsewhere" \notin bm.animated
(***************************************************************************)
(* C11: a draw event whose canvas is not the managed canvas makes on_draw  *)
(* raise at once: nothing is captured, the stored snapshot is what it was, *)
(* and the call draws no animated artist (it makes no canvas call at all). *)
(***************************************************************************)
C11_ForeignEventStep ==
    (last' = <<"on_draw", "canvas2">>) =>
        /\ bm'.raised
        /\ bm'.trace = <<>>
        /\ bm'.captures = bm.captures
        /\ bm'.bg = bm.bg
        /\ bm'.buffer = bm.buffer
        /\ bm'.screen = bm.screen
        /\ bm'.artists = bm.artists

\* C11: on_draw raises on a foreign canvas's event and touches nothing.
C11_ForeignEventRaises == [][C11_ForeignEventStep]_vars

\* a foreign event refused by a manager that holds artists and a snapshot
C11_Witness ==
    /\ last = <<"on_draw", "canvas2">>
    /\ bm.raised
    /\ bm.trace = <<>>
    /\ bm.bg # None
    /\ bm.captures = 2
    /\ Len(bm.artists) = 2

(***************************************************************************)
(* C12: in every reachable state of the renderer the stored snapshot holds *)
(* no pixels of an animated artist: nothing has been painted over the      *)
(* scene it was captured from, and that scene was drawn without the        *)
(* animated artists; every capture, by a draw event or by update(), is     *)
(* taken from such a buffer.                                               *)
(***************************************************************************)
NoAnimatedPixels(buf, m) ==
    /\ buf.over = <<>>
    /\ buf.static \cap m.animated = {}
    /\ \A i \in 1..Len(m.artists) : m.artists[i] \notin buf.static

C12_SnapshotClean == bm.bg # None => NoAnimatedPixels(bm.bg[1], bm)

C12_CaptureStep ==
    (bm'.captures # bm.captures) =>
        /\ bm'.captures = bm.captures + 1
        /\ bm'.bg # None
        /\ NoAnimatedPixels(bm'.bg[1], bm')
        /\ bm'.trace[1] = Call("copy_from_bbox", "fig.bbox")

\* C12: the stored snapshot never holds animated-artist pixels, and no
\* capture is taken from a buffer the animated artists were drawn onto.
C12_SnapshotHasNoAnimatedPixels ==
    /\ []C12_SnapshotClean
    /\ [][C12_CaptureStep]_vars

\* a snapshot taken by update(), frames drawn over it, then a draw event
\* that replaced it
C12_Witness ==
    /\ bm.captures = 2
    /\ draws = 1
    /\ bm.updates = 2
    /\ bm.bg # None
    /\ bm.bg[1].scene = 1
    /\ Len(bm.buffer.over) = 2
(***************************************************************************)
(* C13 as stated: if the renderer process crashes without taking the       *)
(* sentinel, main() stays blocked in join() and never reports an exit      *)
(* status.  join() returns as soon as the process has terminated, however  *)
(* it terminated, so main() goes on and prints the exit code.              *)
(***************************************************************************)
C13_CrashBlocksJoinForever ==
    rpc = "crashed" => (ppc \in {"loop", "join"} /\ printed = <<>>)

(***************************************************************************)
(* C13 amended: if the renderer process crashes without taking the         *)
(* sentinel, main() still puts all its vectors and the sentinel, join()    *)
(* returns, and main() reports the renderer's exit status, which is not 0. *)
(***************************************************************************)
C13_ReportIsExitCode ==
    /\ ppc \in {"report", "done"} => rpc \in {"exited", "crashed"}
    /\ printed # <<>> => printed = <<exitcode>>
    /\ rpc = "crashed" => (exitcode = ExitCode(1) /\ ~HasSentinel(taken))
    /\ rpc = "exited" => exitcode = ExitCode(0)

C13_CrashedAndReported ==
    /\ ppc = "done"
    /\ Len(sent) = NumFrames + 1
    /\ printed = <<ExitCode(1)>>

\* once the renderer has crashed, main() always has a next step until it is done
C13_NeverBlockedAfterCrash ==
    (rpc = "crashed" /\ ppc # "done") => ENABLED MainStep

\* C13 (amended): after a crash of the renderer main() is never blocked, in
\* join() or elsewhere, and what it reports is the renderer's exit code, 1.
C13_CrashIsReported ==
    /\ C13_ReportIsExitCode
    /\ C13_NeverBlockedAfterCrash
    /\ (rpc = "crashed" /\ ppc = "done") => C13_CrashedAndReported

\* the renderer died while frames were queued; main() has reported it
C13_Witness ==
    /\ rpc = "crashed"
    /\ C13_CrashedAndReported
    /\ Len(taken) = 2
    /\ Len(queue) = NumFrames - 1
(***************************************************************************)
(* C14: every call of update(), the one that finds no snapshot included,   *)
(* blits the figure's bounding box to the screen after the animated        *)
(* artists have been drawn, and then flushes the GUI events.               *)
(* The branch taken when there is no snapshot (lines 71-72) calls          *)
(* on_draw(None) and nothing else: cv.blit is in the else branch only.     *)
(***************************************************************************)
C14_EveryUpdateBlits ==
    (last = <<"update", "">>) =>
        /\ Len(bm.trace) >= 2
        /\ bm.trace[Len(bm.trace)] = Flush
        /\ bm.trace[Len(bm.trace) - 1] = Blit
        /\ bm.screen = bm.buffer

(***************************************************************************)
(* C15: when a snapshot exists, update() restores it into the frame        *)
(* buffer, draws every registered animated artist once, in registration    *)
(* order, blits the figure's bounding box, flushes the events, in that     *)
(* order and nothing else; the stored snapshot and the artists are left as *)
(* they were.                                                              *)
(***************************************************************************)
Occurrences(seq, x) == Cardinality({i \in 1..Len(seq) : seq[i] = x})

C15_UpdateStep ==
    (IsUpdateStep /\ bm.bg # None) =>
        /\ bm'.trace = <<Restore>> \o DrawCalls(bm.artists) \o <<Blit, Flush>>
        /\ \A a \in Artists :
              Occurrences(bm'.trace, Call("draw_artist", a)) = Occurrences(bm.artists, a)
        /\ bm'.buffer = [bm.bg[1] EXCEPT !.over = Painted(bm, bm.artists)]
        /\ bm'.screen = bm'.buffer
        /\ bm'.bg = bm.bg
        /\ bm'.artists = bm.artists
        /\ bm'.animated = bm.animated
        /\ ~bm'.raised

\* C15: with a snapshot stored, update() is restore, one draw per registered
\* artist in order, blit, flush, and changes neither snapshot nor artists.
C15_UpdateOrder == [][C15_UpdateStep]_vars

\* an update() that found a snapshot and drew the two artists in order
C15_Witness ==
    /\ last = <<"update", "">>
    /\ bm.artists = <<"ln", "fr_number">>
    /\ bm.trace = <<Restore, Call("draw_artist", "ln"),
                    Call("draw_artist", "fr_number"), Blit, Flush>>
    /\ draws = 1
(***************************************************************************)
(* C16 as stated: the renderer tests nothing about a vector but whether    *)
(* its length is zero: a vector of any other length, n_samples or not, is  *)
(* counted, becomes the curve's data, gets its counter text and its        *)
(* update(), and the renderer is back in queue.get() with the loop still   *)
(* running.  For a length other than 1 and n_samples update() raises when  *)
(* it draws the curve, and the process ends there.                         *)
(***************************************************************************)
C16_GetStep ==
    (rpc = "await" /\ rpc' # "await") =>
        /\ queue # <<>>
        /\ data' = Head(queue)
        /\ frame_num' = frame_num + 1
        /\ rpc' = (IF Head(queue).len = 0 THEN "returned" ELSE "render")

C16_RenderStep ==
    (rpc = "render" /\ rpc' # "render") =>
        /\ rpc' = "flush"
        /\ bm'.ydata = data
        /\ bm'.text = FormatFrame(frame_num)
        /\ bm'.updates = bm.updates + 1
        /\ ~bm'.raised
        /\ rendered' = Append(rendered, [ydata |-> data, text |-> FormatFrame(frame_num)])
        /\ figOpen'

C16_FlushStep == (rpc = "flush" /\ rpc' # "flush") => rpc' = "await"

C16_AllNonEmptyRendered ==
    /\ Len(rendered) = FrameCount(taken) - (IF rpc = "render" THEN 1 ELSE 0)
    /\ \A i \in 1..Len(rendered) : rendered[i].ydata = taken[i]
    /\ (rpc \notin {"start"} /\ ~HasSentinel(taken)) => (figOpen /\ ~LoopLeft)

\* C16: every vector of non-zero length takes the rendering transition,
\* whatever its length, and the loop goes on.
C16_NoValidation ==
    /\ []C16_AllNonEmptyRendered
    /\ [][C16_GetStep /\ C16_RenderStep /\ C16_FlushStep]_vars

(***************************************************************************)
(* C16 amended: the renderer itself tests nothing about a vector but       *)
(* whether its length is zero: a vector of any other length is counted,    *)
(* becomes the curve's data, gets its counter text, and update() is        *)
(* called.  For n_samples values, and for one value (drawn at every x),    *)
(* update() completes and the renderer is                                  *)
(* back in queue.get() with the loop still running.  For any other length  *)
(* update() raises when it draws the curve, before any blit or             *)
(* flush_events; the process ends there with exit code 1, the figure not   *)
(* closed, the screen as it was, and it takes nothing more.                *)
(***************************************************************************)
C16_RenderOrRaiseStep ==
    (rpc = "render" /\ rpc' # "render") =>
        /\ bm'.ydata = data
        /\ bm'.text = FormatFrame(frame_num)
        /\ bm'.updates = bm.updates + 1
        /\ figOpen'
        /\ IF Broadcasts(len(data))
           THEN /\ rpc' = "flush"
                /\ ~bm'.raised
                /\ exitcode' = exitcode
                /\ rendered' = Append(rendered,
                                      [ydata |-> data, text |-> FormatFrame(frame_num)])
           ELSE /\ rpc' = "crashed"
                /\ bm'.raised
                /\ exitcode' = ExitCode(1)
                /\ rendered' = rendered
                /\ bm'.screen = bm.screen
                /\ \A i \in 1..Len(bm'.trace) : bm'.trace[i] \notin {Blit, Flush}
                /\ bm'.trace[Len(bm'.trace)] = Call("draw_artist", "ln")

C16_EndedStep ==
    rpc = "crashed" =>
        UNCHANGED <<rpc, bm, taken, rendered, frame_num, data, figOpen, exitcode>>

C16_ValidPrefixRendered ==
    /\ Len(rendered) = FrameCount(taken) - (IF rpc \in {"render", "crashed"} THEN 1 ELSE 0)
    /\ \A i \in 1..Len(rendered) :
          rendered[i].ydata = taken[i] /\ Broadcasts(len(taken[i]))
    /\ frame_num = Len(taken)
    /\ (rpc \notin {"start"} /\ ~HasSentinel(taken)) => (figOpen /\ ~LoopLeft)
    /\ rpc = "crashed" <=> (taken # <<>> /\ rpc # "render"
                                         /\ Undrawable(taken[Len(taken)]))

\* C16: only the length-zero test is the renderer's own; a vector of
\* n_samples values or of one value is rendered and the loop goes on, any
\* other non-empty vector is counted and set, then ends the process inside
\* update().
C16_NoValidationDrawRaises ==
    /\ []C16_ValidPrefixRendered
    /\ [][C16_GetStep /\ C16_RenderOrRaiseStep /\ C16_FlushStep /\ C16_EndedStep]_vars

\* a vector of one value was rendered like a frame, then a vector of
\* n_samples - 1 values was taken, counted and set; update() raised and the
\* process ended, the sentinel still queued
C16_Witness ==
    /\ rpc = "crashed"
    /\ Len(rendered) = 1
    /\ rendered[1].ydata.len = 1
    /\ Len(taken) = 2
    /\ taken[2].len = NSamples - 1
    /\ bm.ydata = taken[2]
    /\ bm.text = FormatFrame(2)
    /\ frame_num = 2
    /\ bm.updates = 2
    /\ exitcode = ExitCode(1)
    /\ HasSentinel(queue)
(***************************************************************************)
(* C17: main() never reaches a deadlock short of completion: main is never *)
(* waiting in join() while the renderer waits in queue.get() on an empty   *)
(* queue without having taken the sentinel, since the sentinel is put      *)
(* before join() is entered; until main is done, one of the two processes  *)
(* always has a step to take.                                              *)
(***************************************************************************)
C17_BothBlocked ==
    /\ ppc = "join"
    /\ rpc = "await"
    /\ queue = <<>>
    /\ ~HasSentinel(taken)

C17_NoDeadlock ==
    /\ ~C17_BothBlocked
    /\ ppc = "join" => HasSentinel(sent)
    /\ ppc # "done" => ENABLED (MainStep \/ RendererStep)

\* main waits in join() and the renderer is at queue.get() with all 100
\* frames taken: what it finds in the queue is the sentinel
C17_Witness ==
    /\ ppc = "join"
    /\ rpc = "await"
    /\ Len(taken) = NumFrames
    /\ queue = <<Sentinel>>

(***************************************************************************)
(* C18: the renderer never holds the producer up before join(): the queue  *)
(* has no bound, so each of the 100 puts and the sentinel's put can be     *)
(* made whatever the renderer has taken so far; all 101 vectors can be     *)
(* queued before the renderer has entered its loop.                        *)
(***************************************************************************)
C18_PutNeverBlocked ==
    /\ ppc = "loop" => ENABLED (MainPut \/ MainPutSentinel)
    /\ Len(sent) = j + (IF ppc = "loop" THEN 0 ELSE 1)
    /\ Len(queue) = Len(sent) - Len(taken)

\* everything is queued and the renderer has not run a line
C18_Witness ==
    /\ Len(queue) = NumFrames + 1
    /\ taken = <<>>
    /\ rpc = "start"
    /\ ppc = "join"

(***************************************************************************)
(* C19: a snapshot, once stored (by a draw event or by update()), is never *)
(* set back to None by a later call; so update() takes its no-snapshot     *)
(* branch at most once in the life of a manager, and only when it is the   *)
(* first update() and no draw event has been handled before it.            *)
(***************************************************************************)
C19_SnapshotStays == bm.bg # None => bm'.bg # None

C19_DefensiveOnlyFirst ==
    (IsUpdateStep /\ bm'.captures # bm.captures) =>
        /\ bm.bg = None
        /\ bm.updates = 0
        /\ draws = 0
        /\ bm.captures = 0
        /\ bm'.bg # None

C19_AfterFirstUpdate == bm.updates >= 1 => bm.bg # None

C19_SnapshotNeverReset ==
    /\ []C19_AfterFirstUpdate
    /\ [][C19_SnapshotStays /\ C19_DefensiveOnlyFirst]_vars

\* update() took the snapshot itself; a foreign event was refused; the
\* snapshot is still there
C19_Witness ==
    /\ last = <<"on_draw", "canvas2">>
    /\ bm.updates = 2
    /\ draws = 0
    /\ bm.captures = 1
    /\ bm.bg # None
====
